---- MODULE Spec2Model ----
(***************************************************************************)
(* A model of flytekit/core/utils.py: the DNS-label sanitizer _dnsify, the *)
(* container builder _get_container_definition, the pod-spec serializer    *)
(* _serialize_pod_spec, AutoDeletingTempDir and the timeit context         *)
(* manager.                                                                *)
(*                                                                         *)
(* Strings that the code inspects character by character are sequences of  *)
(* code points (ASCII); opaque strings are TLA+ strings.  None is Python's *)
(* None.                                                                   *)
(***************************************************************************)
EXTENDS Integers, Sequences, FiniteSets, TLC

VARIABLES
  \* _dnsify: the argument, the result, the result of a second application
  value, res, res2, dnsPc,
  \* AutoDeletingTempDir: the directories that exist (each with its files),
  \* the fields _name and _cleanup, the number of directories mkdtemp has
  \* made, the directories of the scopes that are open (innermost last),
  \* the directory of the scope exited last, whether that directory was
  \* already gone when its exit was called, whether the last cleanup raised,
  \* the position of the caller
  fs, _name, _cleanup, made, opened, created, removed, raised, tdPc,
  \* timeit: the object's fields, the clocks, the timeline deck, the stack of
  \* open scopes (each with the clocks at its entry), the exception in
  \* flight, the number of scopes entered and exited, what the last exit did
  start_time, _start_wall_time, _start_process_time, clock, timeline_deck,
  scopes, exc, entered, exited, lastExit,
  \* _get_container_definition: two of its arguments and what it returns
  resource_spec, environment, container, cdPc,
  \* _serialize_pod_spec: the objects in memory, the caller's pod template
  \* (an address), the computed primary container, what the call returns,
  \* and what the caller's template held before the call
  heap, pod_template, primary_container, result, before, podPc

dnsVars == <<value, res, res2, dnsPc>>
tdVars == <<fs, _name, _cleanup, made, opened, created, removed, raised, tdPc>>
tmVars == <<start_time, _start_wall_time, _start_process_time, clock,
            timeline_deck, scopes, exc, entered, exited, lastExit>>
cdVars == <<resource_spec, environment, container, cdPc>>
podVars == <<heap, pod_template, primary_container, result, before, podPc>>
vars == <<dnsVars, tdVars, tmVars, cdVars, podVars>>
\* What the steps of each component leave alone
dnsOthers == <<tdVars, tmVars, cdVars, podVars>>
tdOthers == <<dnsVars, tmVars, cdVars, podVars>>
tmOthers == <<dnsVars, tdVars, cdVars, podVars>>
cdOthers == <<dnsVars, tdVars, tmVars, podVars>>
podOthers == <<dnsVars, tdVars, tmVars, cdVars>>

\* None, where the other values are strings
None == "None"
\* An optional list, mapping or object x: Null for None, Some(x) otherwise
Null == <<>>
Some(x) == <<x>>

(***************************************************************************)
(* hashlib.sha224 (FIPS 180-4).  A 32-bit word is a pair <<hi, lo>> of     *)
(* 16-bit halves.                                                          *)
(***************************************************************************)
RECURSIVE BitAnd(_, _)
BitAnd(a, b) ==
  IF a = 0 \/ b = 0 THEN 0
  ELSE (a % 2) * (b % 2) + 2 * BitAnd(a \div 2, b \div 2)

RECURSIVE BitXor(_, _)
BitXor(a, b) ==
  IF a = 0 THEN b
  ELSE IF b = 0 THEN a
  ELSE ((a + b) % 2) + 2 * BitXor(a \div 2, b \div 2)

WAnd(x, y) == <<BitAnd(x[1], y[1]), BitAnd(x[2], y[2])>>

WXor(x, y) == <<BitXor(x[1], y[1]), BitXor(x[2], y[2])>>

WNot(x) == <<65535 - x[1], 65535 - x[2]>>

WAdd(x, y) ==
  LET lo == x[2] + y[2]
      hi == x[1] + y[1] + (lo \div 65536)
  IN <<hi % 65536, lo % 65536>>

\* x >> n, 0 < n < 16
WShr(x, n) ==
  <<x[1] \div (2 ^ n), (x[2] \div (2 ^ n)) + (x[1] % (2 ^ n)) * (2 ^ (16 - n))>>

\* x rotated right by n, 0 < n < 32
WRotr(x, n) ==
  LET y == IF n >= 16 THEN <<x[2], x[1]>> ELSE x
      m == IF n >= 16 THEN n - 16 ELSE n
  IN IF m = 0 THEN y
     ELSE <<(y[1] \div (2 ^ m)) + (y[2] % (2 ^ m)) * (2 ^ (16 - m)),
            (y[2] \div (2 ^ m)) + (y[1] % (2 ^ m)) * (2 ^ (16 - m))>>

SHA_K ==
  <<
     <<17034, 12184>>, <<28983, 17553>>, <<46528, 64463>>, <<59829, 56229>>,
     <<14678, 49755>>, <<23025, 4593>>, <<37439, 33444>>, <<43804, 24277>>,
     <<55303, 43672>>, <<4739, 23297>>, <<9265, 34238>>, <<21772, 32195>>,
     <<29374, 23924>>, <<32990, 45566>>, <<39900, 1703>>, <<49563, 61812>>,
     <<58523, 27073>>, <<61374, 18310>>, <<4033, 40390>>, <<9228, 41420>>,
     <<11753, 11375>>, <<19060, 33962>>, <<23728, 43484>>, <<30457, 35034>>,
     <<38974, 20818>>, <<43057, 50797>>, <<45059, 10184>>, <<48985, 32711>>,
     <<50912, 3059>>, <<54695, 37191>>, <<1738, 25425>>, <<5161, 10599>>,
     <<10167, 2693>>, <<11803, 8504>>, <<19756, 28156>>, <<21304, 3347>>,
     <<25866, 29524>>, <<30314, 2747>>, <<33218, 51502>>, <<37490, 11397>>,
     <<41663, 59553>>, <<43034, 26187>>, <<49739, 35696>>, <<51052, 20899>>,
     <<53650, 59417>>, <<54937, 1572>>, <<62478, 13701>>, <<4202, 41072>>,
     <<6564, 49430>>, <<7735, 27656>>, <<10056, 30540>>, <<13488, 48309>>,
     <<14620, 3251>>, <<20184, 43594>>, <<23452, 51791>>, <<26670, 28659>>,
     <<29839, 33518>>, <<30885, 25455>>, <<33992, 30740>>, <<36039, 520>>,
     <<37054, 65530>>, <<42064, 27883>>, <<48889, 41975>>, <<50801, 30962>>
  >>

SHA224_H0 ==
  <<
     <<49413, 40664>>, <<13948, 54535>>, <<12400, 56599>>, <<63246, 22841>>,
     <<65472, 2865>>, <<26712, 5393>>, <<25849, 36775>>, <<48890, 20388>>
  >>

BigSigma0(x) == WXor(WXor(WRotr(x, 2), WRotr(x, 13)), WRotr(x, 22))

BigSigma1(x) == WXor(WXor(WRotr(x, 6), WRotr(x, 11)), WRotr(x, 25))

SmallSigma0(x) == WXor(WXor(WRotr(x, 7), WRotr(x, 18)), WShr(x, 3))

SmallSigma1(x) == WXor(WXor(WRotr(x, 17), WRotr(x, 19)), WShr(x, 10))

Ch(x, y, z) == WXor(WAnd(x, y), WAnd(WNot(x), z))

Maj(x, y, z) == WXor(WXor(WAnd(x, y), WAnd(x, z)), WAnd(y, z))

\* n zero bytes
RECURSIVE Zeros(_)
Zeros(n) == IF n = 0 THEN <<>> ELSE <<0>> \o Zeros(n - 1)

\* The padded message: the bytes, 0x80, zeros up to 56 mod 64, and the bit
\* length as 8 big-endian bytes (messages here are shorter than 8192 bytes).
ShaPad(bytes) ==
  LET n == Len(bytes)
      z == (119 - (n % 64)) % 64
  IN bytes \o <<128>> \o Zeros(z) \o Zeros(6)
       \o <<(8 * n) \div 256, (8 * n) % 256>>

\* The 16 big-endian words of block b (from 0) of the padded message
ShaBlock(padded, b) ==
  [i \in 1..16 |->
     LET o == 64 * b + 4 * (i - 1)
     IN <<padded[o + 1] * 256 + padded[o + 2],
          padded[o + 3] * 256 + padded[o + 4]>>]

\* The message schedule, extended from 16 words to 64
RECURSIVE ShaSchedule(_)
ShaSchedule(w) ==
  IF Len(w) = 64 THEN w
  ELSE LET t == Len(w) + 1
       IN ShaSchedule(Append(w,
            WAdd(WAdd(SmallSigma1(w[t - 2]), w[t - 7]),
                 WAdd(SmallSigma0(w[t - 15]), w[t - 16]))))

\* Rounds t..64 of the compression function on the working variables
\* s = a..h.  The guard reads s, so each round's variables are computed
\* before the next round starts.
RECURSIVE ShaRounds(_, _, _)
ShaRounds(s, w, t) ==
  IF t > 64 \/ Len(s) # 8 THEN s
  ELSE LET t1 == WAdd(WAdd(WAdd(s[8], BigSigma1(s[5])),
                           WAdd(Ch(s[5], s[6], s[7]), SHA_K[t])), w[t])
           t2 == WAdd(BigSigma0(s[1]), Maj(s[1], s[2], s[3]))
       IN ShaRounds(<<WAdd(t1, t2), s[1], s[2], s[3],
                      WAdd(s[4], t1), s[5], s[6], s[7]>>, w, t + 1)

ShaCompress(h, block) ==
  LET s == ShaRounds(h, ShaSchedule(block), 1)
  IN <<WAdd(h[1], s[1]), WAdd(h[2], s[2]), WAdd(h[3], s[3]), WAdd(h[4], s[4]),
       WAdd(h[5], s[5]), WAdd(h[6], s[6]), WAdd(h[7], s[7]), WAdd(h[8], s[8])>>

RECURSIVE ShaBlocks(_, _, _)
ShaBlocks(h, padded, b) ==
  IF 64 * b >= Len(padded) \/ Len(h) # 8 THEN h
  ELSE ShaBlocks(ShaCompress(h, ShaBlock(padded, b)), padded, b + 1)

\* One hex digit as a character
HexChar(d) == IF d < 10 THEN 48 + d ELSE 87 + d

\* The 4 lower-case hex digits of a 16-bit number
Hex16(n) ==
  <<HexChar(n \div 4096), HexChar((n \div 256) % 16),
    HexChar((n \div 16) % 16), HexChar(n % 16)>>

\* _sha224(value.encode("utf-8")).hexdigest(): 7 words, 56 hex digits.
\* ASCII text encodes to its code points.
sha224_hexdigest(bytes) ==
  LET h == ShaBlocks(SHA224_H0, ShaPad(bytes), 0)
      RECURSIVE Hex(_)
      Hex(i) == IF i > 7 THEN <<>>
                ELSE Hex16(h[i][1]) \o Hex16(h[i][2]) \o Hex(i + 1)
  IN Hex(1)

(***************************************************************************)
(* _dnsify                                                                 *)
(***************************************************************************)
MAX == 63
HASH_LEN == 10

IsLowerCh(ch) == ch \in 97..122
IsUpperCh(ch) == ch \in 65..90
IsDigitCh(ch) == ch \in 48..57
\* str.isalnum on one ASCII character
IsAlnumCh(ch) == IsLowerCh(ch) \/ IsUpperCh(ch) \/ IsDigitCh(ch)
\* '_', '-' or '.'
IsSeparatorCh(ch) == ch \in {95, 45, 46}
\* str.lower on one ASCII upper-case letter
LowerCh(ch) == ch + 32

\* value[-n:] for n > 0
LastChars(s, n) == IF Len(s) <= n THEN s ELSE SubSeq(s, Len(s) - n + 1, Len(s))

\* The replacement of a value of MAX or more characters
DnsShorten(v) ==
  IF Len(v) >= MAX
  THEN SubSeq(sha224_hexdigest(v), 1, HASH_LEN) \o <<45>>
         \o LastChars(v, MAX - HASH_LEN - 1)
  ELSE v

\* One iteration of the loop over the characters
DnsStep(r, ch) ==
  IF IsSeparatorCh(ch)
  THEN IF r # <<>> /\ Len(r) < 62 THEN Append(r, 45) ELSE r
  ELSE IF ~IsAlnumCh(ch) THEN r
  ELSE IF IsLowerCh(ch) \/ IsDigitCh(ch) THEN Append(r, ch)
  ELSE Append(IF r # <<>> /\ r[Len(r)] # 45 /\ Len(r) < 62
              THEN Append(r, 45) ELSE r,
              LowerCh(ch))

\* The loop from character i on, with res = r so far.  The guard reads r,
\* so each iteration's res is computed before the next iteration starts.
RECURSIVE DnsLoop(_, _, _)
DnsLoop(v, i, r) ==
  IF i > Len(v) \/ Len(r) < 0 THEN r
  ELSE DnsLoop(v, i + 1, DnsStep(r, v[i]))

DnsStripLast(r) ==
  IF Len(r) > 0 /\ r[Len(r)] = 45 THEN SubSeq(r, 1, Len(r) - 1) ELSE r

_dnsify(v) ==
  LET w == DnsShorten(v) IN DnsStripLast(DnsLoop(w, 1, <<>>))

(***************************************************************************)
(* The sanitizer applied to an argument, and applied again to its result.  *)
(***************************************************************************)
MaxShort == 3
MaxPad == 2

\* 'a', 'B', '9', '_', '-', '.', '!'
DnsAlphabet == {97, 66, 57, 95, 45, 46, 33}

RECURSIVE StringsUpTo(_, _)
StringsUpTo(alphabet, n) ==
  IF n = 0 THEN {<<>>}
  ELSE LET shorter == StringsUpTo(alphabet, n - 1)
       IN shorter \cup {Append(s, ch) : s \in shorter, ch \in alphabet}

\* unit repeated and cut to n characters
Cycle(unit, n) == [i \in 1..n |-> unit[((i - 1) % Len(unit)) + 1]]

\* Every string of at most MaxShort characters, and the strings of one or
\* two characters repeated up to a length within MaxPad of MAX
DnsInputs ==
  StringsUpTo(DnsAlphabet, MaxShort)
    \cup {Cycle(unit, n) : unit \in StringsUpTo(DnsAlphabet, 2) \ {<<>>},
                           n \in (MAX - MaxPad)..(MAX + MaxPad)}

DnsIdle == value = <<>> /\ res = None /\ res2 = None /\ dnsPc = "idle"

DnsInit == value \in DnsInputs /\ res = None /\ res2 = None /\ dnsPc = "start"

Dnsify ==
  /\ dnsPc = "start"
  /\ res' = _dnsify(value)
  /\ dnsPc' = "once"
  /\ UNCHANGED <<value, res2, dnsOthers>>

DnsifyAgain ==
  /\ dnsPc = "once"
  /\ res2' = _dnsify(res)
  /\ dnsPc' = "twice"
  /\ UNCHANGED <<value, res, dnsOthers>>

DnsNext == Dnsify \/ DnsifyAgain

(***************************************************************************)
(* AutoDeletingTempDir.  The file system is a function from the paths of   *)
(* the directories that exist to the set of files in each.  One object is  *)
(* used for every scope; "with d:" inside "with d:" enters it again while  *)
(* it is open.  _cleanup_dir tests os.path.exists and then calls           *)
(* shutil.rmtree; other programs act on the file system between the two.   *)
(***************************************************************************)
MaxDirs == 3
MaxFiles == 2

\* f without x
Without(f, x) == [y \in DOMAIN f \ {x} |-> f[y]]

\* tempfile.mkdtemp: a new, empty directory under a name never used before
DirPath(n) == "/tmp/tmp" \o ToString(n)

mkdtemp(files, n) == [p \in DOMAIN files \cup {DirPath(n + 1)} |->
                        IF p = DirPath(n + 1) THEN {} ELSE files[p]]

\* os.path.exists
exists(files, path) == path \in DOMAIN files

\* shutil.rmtree: the directory and everything in it; FileNotFoundError
\* when there is no such directory
rmtree(files, path) ==
  IF path \in DOMAIN files
  THEN [fs |-> Without(files, path), raised |-> FALSE]
  ELSE [fs |-> files, raised |-> TRUE]

\* get_named_tempfile: os.path.join(self.name, name); nothing is created
get_named_tempfile(name, f) == <<name, f>>

\* os.path.dirname
dirname(path) == path[1]

\* Path(...).mkdir(parents=True, exist_ok=True)
mkdir(files, d) == [p \in DOMAIN files \cup {d} |->
                      IF p \in DOMAIN files THEN files[p] ELSE {}]

\* write_proto_to_file: the directory of the path is made when it is
\* missing, then the file is written (over the one there, if any)
write_proto_to_file(files, path) ==
  [mkdir(files, dirname(path)) EXCEPT ![dirname(path)] = @ \cup {path[2]}]

\* _cleanup_dir up to its call of shutil.rmtree: whether it goes on to call
\* rmtree, and _name when it does not
_cleanup_dir(files, name, cleanup) ==
  IF name # None /\ cleanup
  THEN IF exists(files, name)
       THEN [rmtree |-> TRUE, _name |-> name]
       ELSE [rmtree |-> FALSE, _name |-> None]
  ELSE [rmtree |-> FALSE, _name |-> name]

\* _cleanup_dir from its call of shutil.rmtree: the file system and _name
\* after it, and whether rmtree raised (_name is then left as it was)
_cleanup_dir_rmtree(files, name) ==
  LET r == rmtree(files, name)
  IN [fs |-> r.fs, _name |-> IF r.raised THEN name ELSE None,
      raised |-> r.raised]

\* The caller is between two calls on the object; tdPc names the call made
\* last
Between == tdPc \in {"new", "entered", "written", "forced", "exited"}

\* The innermost open scope's directory, and the scopes without it
Top(s) == s[Len(s)]
Pop(s) == SubSeq(s, 1, Len(s) - 1)

TdIdle ==
  /\ fs = <<>> /\ _name = None /\ _cleanup = TRUE /\ made = 0
  /\ opened = <<>> /\ created = None /\ removed = FALSE /\ raised = FALSE
  /\ tdPc = "idle"

\* __init__: cleanup is the caller's choice, the name is None
TdInit ==
  /\ fs = <<>> /\ _name = None /\ _cleanup \in BOOLEAN /\ made = 0
  /\ opened = <<>> /\ created = None /\ removed = FALSE /\ raised = FALSE
  /\ tdPc = "new"

\* __enter__, also on an object whose scope is open
TdEnter ==
  /\ Between
  /\ made < MaxDirs
  /\ fs' = mkdtemp(fs, made)
  /\ made' = made + 1
  /\ _name' = DirPath(made + 1)
  /\ opened' = Append(opened, DirPath(made + 1))
  /\ tdPc' = "entered"
  /\ UNCHANGED <<_cleanup, created, removed, raised, tdOthers>>

\* write_proto_to_file(proto, self.get_named_tempfile(f)), in a scope or
\* after it; with _name None os.path.join raises and nothing changes
TdWriteProto ==
  /\ Between
  /\ _name # None
  /\ \E f \in 1..MaxFiles :
       fs' = write_proto_to_file(fs, get_named_tempfile(_name, f))
  /\ tdPc' = "written"
  /\ UNCHANGED <<_name, _cleanup, made, opened, created, removed, raised, tdOthers>>

\* force_cleanup, in a scope, after it or before any, up to the call of
\* rmtree
TdForceCleanup ==
  /\ Between
  /\ LET c == _cleanup_dir(fs, _name, _cleanup)
     IN /\ _name' = c._name
        /\ tdPc' = IF c.rmtree THEN "force_rmtree" ELSE "forced"
        /\ raised' = IF c.rmtree THEN raised ELSE FALSE
  /\ UNCHANGED <<fs, _cleanup, made, opened, created, removed, tdOthers>>

\* force_cleanup, from the call of rmtree
TdForceRmtree ==
  /\ tdPc = "force_rmtree"
  /\ LET r == _cleanup_dir_rmtree(fs, _name)
     IN fs' = r.fs /\ _name' = r._name /\ raised' = r.raised
  /\ tdPc' = "forced"
  /\ UNCHANGED <<_cleanup, made, opened, created, removed, tdOthers>>

\* The directories something else can remove: those of the open scopes,
\* and the one _cleanup_dir is about to hand to rmtree
Removable ==
  {opened[i] : i \in 1..Len(opened)} \cup (IF Between THEN {} ELSE {_name})

\* Something else removes such a directory
TdExternalRemove ==
  /\ \E p \in Removable :
       /\ exists(fs, p)
       /\ fs' = Without(fs, p)
  /\ UNCHANGED <<_name, _cleanup, made, opened, created, removed, raised, tdPc, tdOthers>>

\* __exit__ of the innermost open scope, up to the call of rmtree
TdExit ==
  /\ Between
  /\ opened # <<>>
  /\ removed' = ~exists(fs, Top(opened))
  /\ LET c == _cleanup_dir(fs, _name, _cleanup)
     IN /\ _name' = c._name
        /\ IF c.rmtree
           THEN /\ tdPc' = "exit_rmtree"
                /\ UNCHANGED <<opened, created, raised>>
           ELSE /\ tdPc' = "exited"
                /\ opened' = Pop(opened)
                /\ created' = Top(opened)
                /\ raised' = FALSE
  /\ UNCHANGED <<fs, _cleanup, made, tdOthers>>

\* __exit__, from the call of rmtree
TdExitRmtree ==
  /\ tdPc = "exit_rmtree"
  /\ LET r == _cleanup_dir_rmtree(fs, _name)
     IN fs' = r.fs /\ _name' = r._name /\ raised' = r.raised
  /\ tdPc' = "exited"
  /\ opened' = Pop(opened)
  /\ created' = Top(opened)
  /\ UNCHANGED <<_cleanup, made, removed, tdOthers>>

TdNext ==
  \/ TdEnter \/ TdWriteProto \/ TdForceCleanup \/ TdForceRmtree
  \/ TdExternalRemove \/ TdExit \/ TdExitRmtree

(***************************************************************************)
(* timeit.  One timeit object is used for every scope, as when it          *)
(* decorates a function: wrapper runs "with self: return func(...)", so a  *)
(* call of the function made while it runs opens a nested scope on the     *)
(* same object.                                                            *)
(***************************************************************************)
MaxClock == 3
MaxScopes == 3
MaxDepth == 2

\* bool(x) for the values __exit__ can return
Truthy(x) == x \notin {None, "False"}

\* __enter__: the fields after it
timeit_enter(clk) ==
  [start_time |-> clk.utc, _start_wall_time |-> clk.perf,
   _start_process_time |-> clk.cpu]

\* timeline_deck.append_time_info: the record goes to the end of the deck
append_time_info(deck, info) == Append(deck, info)

\* __exit__ returning True
timeit_exit_swallowing(self, clk, deck) ==
  [timeline_deck |->
     append_time_info(deck, [Name |-> "name",
                             Start |-> self.start_time,
                             Finish |-> clk.utc,
                             WallTime |-> clk.perf - self._start_wall_time,
                             ProcessTime |-> clk.cpu - self._start_process_time]),
   ret |-> "True"]

\* __exit__: the deck after it and the value it returns
timeit_exit(self, clk, deck) ==
  [timeline_deck |->
     append_time_info(deck, [Name |-> "name",
                             Start |-> self.start_time,
                             Finish |-> clk.utc,
                             WallTime |-> clk.perf - self._start_wall_time,
                             ProcessTime |-> clk.cpu - self._start_process_time]),
   ret |-> None]

\* The with statement after __exit__ returned ret: the exception in flight
\* is dropped when ret is true and raised again otherwise
with_exit(e, ret) == IF e # None /\ Truthy(ret) THEN None ELSE e

TmIdle ==
  /\ start_time = None /\ _start_wall_time = None
  /\ _start_process_time = None
  /\ clock = [utc |-> 0, perf |-> 0, cpu |-> 0]
  /\ timeline_deck = <<>> /\ scopes = <<>> /\ exc = None
  /\ entered = 0 /\ exited = 0 /\ lastExit = <<>>

\* __init__, with an empty timeline deck
TmInit == TmIdle

\* Time passes: the wall clocks advance, the process clock may
TmTick ==
  /\ clock.perf < MaxClock
  /\ \E d \in {0, 1} :
       clock' = [utc |-> clock.utc + 1, perf |-> clock.perf + 1,
                 cpu |-> clock.cpu + d]
  /\ UNCHANGED <<start_time, _start_wall_time, _start_process_time,
                 timeline_deck, scopes, exc, entered, exited, lastExit,
                 tmOthers>>

\* A scope is entered: "with self" calls __enter__
TmEnter ==
  /\ exc = None
  /\ entered < MaxScopes
  /\ Len(scopes) < MaxDepth
  /\ LET f == timeit_enter(clock)
     IN /\ start_time' = f.start_time
        /\ _start_wall_time' = f._start_wall_time
        /\ _start_process_time' = f._start_process_time
  /\ scopes' = Append(scopes, clock)
  /\ entered' = entered + 1
  /\ UNCHANGED <<clock, timeline_deck, exc, exited, lastExit, tmOthers>>

\* The wrapped code of the innermost scope raises
TmRaise ==
  /\ scopes # <<>>
  /\ exc = None
  /\ exc' = "Error"
  /\ UNCHANGED <<start_time, _start_wall_time, _start_process_time, clock,
                 timeline_deck, scopes, entered, exited, lastExit, tmOthers>>

\* The innermost scope is left, by a return or by the exception in flight:
\* "with self" calls __exit__ and then raises the exception again or not
TmExit ==
  /\ scopes # <<>>
  /\ LET self == [start_time |-> start_time,
                  _start_wall_time |-> _start_wall_time,
                  _start_process_time |-> _start_process_time]
         r == timeit_exit(self, clock, timeline_deck)
     IN /\ timeline_deck' = r.timeline_deck
        /\ exc' = with_exit(exc, r.ret)
        /\ lastExit' = <<[scope |-> scopes[Len(scopes)],
                          clock |-> clock,
                          raised |-> exc # None,
                          propagated |-> with_exit(exc, r.ret) # None,
                          appended |-> Len(r.timeline_deck) - Len(timeline_deck),
                          record |-> r.timeline_deck[Len(r.timeline_deck)]]>>
  /\ scopes' = SubSeq(scopes, 1, Len(scopes) - 1)
  /\ exited' = exited + 1
  /\ UNCHANGED <<start_time, _start_wall_time, _start_process_time, clock,
                 entered, tmOthers>>

\* The code around a scope catches the exception in flight
TmCatch ==
  /\ exc # None
  /\ exc' = None
  /\ UNCHANGED <<start_time, _start_wall_time, _start_process_time, clock,
                 timeline_deck, scopes, entered, exited, lastExit, tmOthers>>

TmNext == TmTick \/ TmEnter \/ TmRaise \/ TmExit \/ TmCatch

(***************************************************************************)
(* _get_container_definition.  A Resources value has the fields cpu, mem,  *)
(* gpu and ephemeral_storage, each None or a string; a mapping (a dict) is *)
(* the sequence of its <<key, value>> pairs in insertion order.            *)
(***************************************************************************)
\* The truth value of an optional string: None and "" are false
TruthyStr(x) == x \notin {None, ""}

\* flytekit.core.resources._check_resource_is_singular on a Resources value
\* none of whose fields is a list or a tuple: the value itself
_check_resource_is_singular(r) == r

\* task_models.Resources.ResourceEntry
ResourceEntry(name, v) == [name |-> name, value |-> v]

\* The requests list
RequestEntries(requests) ==
  (IF TruthyStr(requests.ephemeral_storage)
   THEN <<ResourceEntry("EPHEMERAL_STORAGE", requests.ephemeral_storage)>>
   ELSE <<>>)
  \o (IF TruthyStr(requests.cpu)
      THEN <<ResourceEntry("CPU", requests.cpu)>> ELSE <<>>)
  \o (IF TruthyStr(requests.gpu)
      THEN <<ResourceEntry("GPU", requests.gpu)>> ELSE <<>>)
  \o (IF TruthyStr(requests.mem)
      THEN <<ResourceEntry("MEMORY", requests.mem)>> ELSE <<>>)

\* The limits list with the CPU entry appended whatever cpu_limit is
LimitEntriesCpuAlways(limits) ==
  (IF TruthyStr(limits.ephemeral_storage)
   THEN <<ResourceEntry("EPHEMERAL_STORAGE", limits.ephemeral_storage)>>
   ELSE <<>>)
  \o <<ResourceEntry("CPU", limits.cpu)>>
  \o (IF TruthyStr(limits.gpu)
      THEN <<ResourceEntry("GPU", limits.gpu)>> ELSE <<>>)
  \o (IF TruthyStr(limits.mem)
      THEN <<ResourceEntry("MEMORY", limits.mem)>> ELSE <<>>)

\* The limits list
LimitEntries(limits) ==
  (IF TruthyStr(limits.ephemeral_storage)
   THEN <<ResourceEntry("EPHEMERAL_STORAGE", limits.ephemeral_storage)>>
   ELSE <<>>)
  \o (IF TruthyStr(limits.cpu)
      THEN <<ResourceEntry("CPU", limits.cpu)>> ELSE <<>>)
  \o (IF TruthyStr(limits.gpu)
      THEN <<ResourceEntry("GPU", limits.gpu)>> ELSE <<>>)
  \o (IF TruthyStr(limits.mem)
      THEN <<ResourceEntry("MEMORY", limits.mem)>> ELSE <<>>)

\* The task_models.Container returned; env is an optional mapping
_get_container_definition(image, spec, command, args, data_loading_config, env) ==
  LET limits == _check_resource_is_singular(spec.limits)
      requests == _check_resource_is_singular(spec.requests)
  IN [image |-> image,
      command |-> command,
      args |-> args,
      resources |-> [limits |-> LimitEntries(limits),
                     requests |-> RequestEntries(requests)],
      env |-> IF env = Null THEN <<>> ELSE env[1],
      config |-> <<>>,
      data_loading_config |-> data_loading_config]

ResourceValues == {None, "", "1", "2Gi"}

ResourcesValues ==
  [cpu : ResourceValues, mem : ResourceValues, gpu : {None, "1"},
   ephemeral_storage : {None, "", "2Gi"}]

CdIdle ==
  /\ resource_spec = Null /\ environment = Null /\ container = Null
  /\ cdPc = "idle"

CdInit ==
  /\ resource_spec \in [limits : ResourcesValues, requests : ResourcesValues]
  /\ environment \in {Null, Some(<<>>), Some(<<<<"K", "v">>>>)}
  /\ container = Null
  /\ cdPc = "start"

GetContainerDefinition ==
  /\ cdPc = "start"
  /\ container' = Some(_get_container_definition(
                     "image", resource_spec, <<"cmd">>, Null, None, environment))
  /\ cdPc' = "done"
  /\ UNCHANGED <<resource_spec, environment, cdOthers>>

CdNext == GetContainerDefinition

(***************************************************************************)
(* _serialize_pod_spec.  Objects live in a heap, a sequence indexed by     *)
(* address; address 0 is None.  A PodTemplate holds the address of its     *)
(* V1PodSpec, which holds the address of its containers list, which holds  *)
(* the addresses of its V1Containers.                                      *)
(***************************************************************************)
MaxContainers == 2

\* kubernetes.client.V1Container with the fields the serializer touches
V1Container(name, image, command, args, resources, env) ==
  [type |-> "V1Container", name |-> name, image |-> image,
   command |-> command, args |-> args, resources |-> resources, env |-> env]

\* V1EnvVar(name=key, value=val)
V1EnvVar(key, val) == [name |-> key, value |-> val]

\* settings.image_config
image_config == [default_image |-> "reg/default:v0"]

\* An image that names the configured default image by a template
DefaultImageTemplate == "{{.image.default.fqn}}:{{.image.default.version}}"

\* flytekit.core.python_auto_container.get_registerable_container_image:
\* the default image for no image, templates replaced from the image
\* configuration, any other image as it is
get_registerable_container_image(img, cfg) ==
  IF img \in {None, ""} THEN cfg.default_image
  ELSE IF img = DefaultImageTemplate THEN cfg.default_image
  ELSE img

\* _sanitize_resource_name: the enum name in lower case, '_' replaced by '-'
_sanitize_resource_name(resource) ==
  CASE resource.name = "CPU" -> "cpu"
    [] resource.name = "GPU" -> "gpu"
    [] resource.name = "MEMORY" -> "memory"
    [] resource.name = "EPHEMERAL_STORAGE" -> "ephemeral-storage"

\* d[k] = v on a mapping
DictSet(d, k, v) ==
  IF \E i \in 1..Len(d) : d[i][1] = k
  THEN [i \in 1..Len(d) |-> IF d[i][1] = k THEN <<k, v>> ELSE d[i]]
  ELSE Append(d, <<k, v>>)

\* The mapping built from the first n resource entries
RECURSIVE ResourceDict(_, _)
ResourceDict(entries, n) ==
  IF n = 0 THEN <<>>
  ELSE DictSet(ResourceDict(entries, n - 1),
               _sanitize_resource_name(entries[n]), entries[n].value)

\* [V1EnvVar(name=key, value=val) for key, val in env.items()]
EnvVars(env) == [i \in 1..Len(env) |-> V1EnvVar(env[i][1], env[i][2])]

\* The body for a primary container, with the image always overwritten
MergePrimaryImageOverwritten(c, pc, cfg) ==
  LET limits == ResourceDict(pc.resources.limits, Len(pc.resources.limits))
      requests == ResourceDict(pc.resources.requests, Len(pc.resources.requests))
  IN [c EXCEPT
        !.image = pc.image,
        !.command = Some(pc.command),
        !.args = pc.args,
        !.resources = IF Len(limits) > 0 \/ Len(requests) > 0
                      THEN Some([limits |-> limits, requests |-> requests])
                      ELSE @,
        !.env = IF pc.env # Null
                THEN Some(EnvVars(pc.env[1]) \o (IF c.env = Null THEN <<>> ELSE c.env[1]))
                ELSE @]

\* The body for a primary container, with the computed entries put after
\* the declared ones
MergePrimaryEnvAppended(c, pc, cfg) ==
  LET limits == ResourceDict(pc.resources.limits, Len(pc.resources.limits))
      requests == ResourceDict(pc.resources.requests, Len(pc.resources.requests))
  IN [c EXCEPT
        !.image = IF c.image = None THEN pc.image
                  ELSE get_registerable_container_image(c.image, cfg),
        !.command = Some(pc.command),
        !.args = pc.args,
        !.resources = IF Len(limits) > 0 \/ Len(requests) > 0
                      THEN Some([limits |-> limits, requests |-> requests])
                      ELSE @,
        !.env = IF pc.env # Null
                THEN Some((IF c.env = Null THEN <<>> ELSE c.env[1]) \o EnvVars(pc.env[1]))
                ELSE @]

\* The body of the second loop for a container named as primary
MergePrimary(c, pc, cfg) ==
  LET limits == ResourceDict(pc.resources.limits, Len(pc.resources.limits))
      requests == ResourceDict(pc.resources.requests, Len(pc.resources.requests))
  IN [c EXCEPT
        !.image = IF c.image = None THEN pc.image
                  ELSE get_registerable_container_image(c.image, cfg),
        !.command = Some(pc.command),
        !.args = pc.args,
        !.resources = IF Len(limits) > 0 \/ Len(requests) > 0
                      THEN Some([limits |-> limits, requests |-> requests])
                      ELSE @,
        !.env = IF pc.env # Null
                THEN Some(EnvVars(pc.env[1]) \o (IF c.env = Null THEN <<>> ELSE c.env[1]))
                ELSE @]

\* The body of the second loop for any other container
MergeOther(c, cfg) ==
  [c EXCEPT !.image = get_registerable_container_image(c.image, cfg)]

\* The second loop from the i-th container on: each container object is
\* changed in place
RECURSIVE MergeLoop(_, _, _, _, _, _)
MergeLoop(h, items, i, pname, pc, cfg) ==
  IF i > Len(items) \/ Len(h) = 0 THEN h
  ELSE MergeLoop(
         [h EXCEPT ![items[i]] =
            IF @.name = pname THEN MergePrimary(@, pc, cfg) ELSE MergeOther(@, cfg)],
         items, i + 1, pname, pc, cfg)

\* copy.copy(pod_template): a new template object that shares the pod spec
shallowcopy(h, t) == [heap |-> Append(h, h[t]), ref |-> Len(h) + 1]

\* copy.deepcopy(pod_template): the heap with the copies, and the address of
\* the template's copy
deepcopy(h, t) ==
  IF h[t].pod_spec = 0
  THEN [heap |-> Append(h, h[t]), ref |-> Len(h) + 1]
  ELSE LET ps == h[h[t].pod_spec]
           items == h[ps.containers].items
           n == Len(h)
       IN [heap |->
             h \o <<[h[t] EXCEPT !.pod_spec = n + 2],
                    [ps EXCEPT !.containers = n + 3],
                    [type |-> "list",
                     items |-> [i \in 1..Len(items) |-> n + 3 + i]]>>
               \o [i \in 1..Len(items) |-> h[items[i]]],
           ref |-> n + 1]

\* ApiClient().sanitize_for_serialization on a container: a mapping of the
\* attributes that are not None
SanitizeContainer(c) ==
  LET present == {"name"}
        \cup (IF c.image # None THEN {"image"} ELSE {})
        \cup {f \in {"command", "args", "resources", "env"} : c[f] # Null}
  IN [f \in present |-> IF f \in {"name", "image"} THEN c[f] ELSE c[f][1]]

\* ApiClient().sanitize_for_serialization(pod_spec)
sanitize_for_serialization(h, ps) ==
  LET items == h[h[ps].containers].items
  IN [containers |-> [i \in 1..Len(items) |-> SanitizeContainer(h[items[i]])]]

\* The heap after the call and what the call returns
_serialize_pod_spec(h, tmpl, pc, cfg) ==
  IF h[tmpl].pod_spec = 0 THEN [heap |-> h, result |-> <<>>]
  ELSE
    LET copied == deepcopy(h, tmpl)
        h1 == copied.heap
        t == copied.ref
        ps == h1[t].pod_spec
        containers == h1[ps].containers
        pname == h1[t].primary_container_name
        primary_exists ==
          \E i \in 1..Len(h1[containers].items) :
             h1[h1[containers].items[i]].name = pname
        h2 == IF primary_exists THEN h1
              ELSE [Append(h1, V1Container(pname, None, Null, Null, Null, Null))
                      EXCEPT ![containers].items = Append(@, Len(h1) + 1)]
        h3 == MergeLoop(h2, h2[containers].items, 1, pname, pc, cfg)
        final_containers == [type |-> "list", items |-> h2[containers].items]
        h4 == [Append(h3, final_containers) EXCEPT ![ps].containers = Len(h3) + 1]
    IN [heap |-> h4, result |-> sanitize_for_serialization(h4, ps)]

\* What a template holds: its containers, field by field
TemplateView(h, t) ==
  IF h[t].pod_spec = 0 THEN <<>>
  ELSE LET items == h[h[h[t].pod_spec].containers].items
       IN [i \in 1..Len(items) |-> h[items[i]]]

\* The containers a template may declare
DeclaredContainers ==
  {V1Container(name, image, Null, Null, Null, env) :
     name \in {"primary", "sidecar"},
     image \in {None, "reg/app:v1", DefaultImageTemplate},
     env \in {Null, Some(<<V1EnvVar("A", "declared")>>)}}

RECURSIVE SeqsUpTo(_, _)
SeqsUpTo(S, n) ==
  IF n = 0 THEN {<<>>}
  ELSE LET shorter == SeqsUpTo(S, n - 1)
       IN shorter \cup {Append(q, x) : q \in shorter, x \in S}

\* The computed primary containers
PrimaryContainers ==
  [image : {"reg/default:v0", "reg/task:v2"},
   command : {<<"pyflyte-execute">>},
   args : {Some(<<"--inputs">>)},
   resources : {[limits |-> <<>>, requests |-> <<>>],
                [limits |-> <<ResourceEntry("CPU", "1"), ResourceEntry("MEMORY", "2Gi")>>,
                 requests |-> <<ResourceEntry("CPU", "1")>>]},
   env : {Null, Some(<<>>), Some(<<<<"A", "computed">>, <<"B", "computed">>>>)}]

\* The heap holding a template with the given containers (cs = Null: a
\* template without a pod spec)
TemplateHeap(cs) ==
  IF cs = Null
  THEN <<[type |-> "PodTemplate", pod_spec |-> 0,
          primary_container_name |-> "primary"]>>
  ELSE <<[type |-> "PodTemplate", pod_spec |-> 2,
          primary_container_name |-> "primary"],
         [type |-> "V1PodSpec", containers |-> 3],
         [type |-> "list", items |-> [i \in 1..Len(cs[1]) |-> 3 + i]]>>
         \o cs[1]

PodIdle ==
  /\ heap = <<>> /\ pod_template = 0 /\ primary_container = Null
  /\ result = Null /\ before = <<>> /\ podPc = "idle"

PodInit ==
  /\ \E cs \in {Null} \cup {Some(q) : q \in SeqsUpTo(DeclaredContainers, MaxContainers)} :
       /\ heap = TemplateHeap(cs)
       /\ before = TemplateView(TemplateHeap(cs), 1)
  /\ pod_template = 1
  /\ primary_container \in PrimaryContainers
  /\ result = Null
  /\ podPc = "start"

SerializePodSpec ==
  /\ podPc = "start"
  /\ LET r == _serialize_pod_spec(heap, pod_template, primary_container, image_config)
     IN heap' = r.heap /\ result' = Some(r.result)
  /\ podPc' = "done"
  /\ UNCHANGED <<pod_template, primary_container, before, podOthers>>

PodNext == SerializePodSpec

(***************************************************************************)
(* Specifications                                                          *)
(***************************************************************************)
InitDns == DnsInit /\ TdIdle /\ TmIdle /\ CdIdle /\ PodIdle

SpecDns == InitDns /\ [][DnsNext]_vars

InitTempDir == TdInit /\ DnsIdle /\ TmIdle /\ CdIdle /\ PodIdle

SpecTempDir == InitTempDir /\ [][TdNext]_vars

InitTimeit == TmInit /\ DnsIdle /\ TdIdle /\ CdIdle /\ PodIdle

SpecTimeit == InitTimeit /\ [][TmNext]_vars

InitContainer == CdInit /\ DnsIdle /\ TdIdle /\ TmIdle /\ PodIdle

SpecContainer == InitContainer /\ [][CdNext]_vars

InitPod == PodInit /\ DnsIdle /\ TdIdle /\ TmIdle /\ CdIdle

SpecPod == InitPod /\ [][PodNext]_vars

(***************************************************************************)
(* Properties                                                              *)
(***************************************************************************)
\* Are all characters of s in the set chars?
AllIn(s, chars) == \A i \in 1..Len(s) : s[i] \in chars

Letters == (97..122) \cup (65..90)
Digits == 48..57
\* The arguments C2 and C3 are about
PlainShort(v) ==
  Len(v) < MAX /\ AllIn(v, Letters \cup Digits \cup {95, 45, 46})

\* C1: the result of _dnsify has at most 63 characters, whatever the
\* argument.
C1_LengthAtMost63 == dnsPc \in {"once", "twice"} => Len(res) <= MAX

\* C2: for an argument shorter than 63 characters made of letters, digits,
\* '_', '-' and '.', the result holds only lower-case letters, digits and
\* hyphens, and neither starts nor ends with a hyphen.
C2_ValidLabel ==
  (dnsPc \in {"once", "twice"} /\ PlainShort(value)) =>
    /\ AllIn(res, (97..122) \cup Digits \cup {45})
    /\ res # <<>> => res[1] # 45 /\ res[Len(res)] # 45

\* C3: for such an argument, applying _dnsify to the result gives the
\* result again.
C3_Idempotent == (dnsPc = "twice" /\ PlainShort(value)) => res2 = res

\* C4: after a scope is exited the directory it created does not exist
\* when cleanup is enabled and exists when cleanup is disabled, and the exit
\* raised nothing when the directory was already gone when it was called.
C4_GoneOrKept ==
  tdPc = "exited" =>
    /\ _cleanup => ~exists(fs, created)
    /\ ~_cleanup => exists(fs, created)
    /\ removed => ~raised

\* C5: every scope exited has appended exactly one record, and an exception
\* raised by the wrapped code is still in flight after the exit.
C5_OneRecordAndPropagation ==
  /\ Len(timeline_deck) = exited
  /\ lastExit # <<>> =>
       /\ lastExit[1].appended = 1
       /\ lastExit[1].raised => lastExit[1].propagated

\* C5's case: a scope whose wrapped code raised has been exited
C5_Witness ==
  /\ lastExit # <<>> /\ lastExit[1].raised /\ exc = "Error"
  /\ exited = 2 /\ Len(timeline_deck) = 2

\* C10: the record appended at a scope's exit carries the Start of that
\* scope's entry and the wall time elapsed since that scope's entry.
C10_RecordOfOwnScope ==
  lastExit # <<>> =>
    /\ lastExit[1].record.Start = lastExit[1].scope.utc
    /\ lastExit[1].record.WallTime =
         lastExit[1].clock.perf - lastExit[1].scope.perf

\* The containers of the mapping the serializer returned
ResultContainers == result[1].containers

\* The call has returned the serialization of a pod spec
Serialized == podPc = "done" /\ heap[pod_template].pod_spec # 0

\* The image-resolution output for a declared image
Resolved(img) == get_registerable_container_image(img, image_config)

\* The final images named by each container of the template, but for
\* whether a resolved image may equal the computed one
FinalImages ==
  \A i \in 1..Len(before) :
     /\ "image" \in DOMAIN ResultContainers[i]
     /\ ResultContainers[i].image =
          IF before[i].name = "primary" /\ before[i].image = None
          THEN primary_container.image
          ELSE Resolved(before[i].image)

\* C6 as stated: a primary container that declares an image ends with the
\* resolution output for it and never with the computed primary container's
\* image; one that declares none ends with the computed image; any other
\* container ends with the resolution output for its declared image.
C6_ResolvedNeverComputed ==
  Serialized =>
    /\ FinalImages
    /\ \A i \in 1..Len(before) :
         (before[i].name = "primary" /\ before[i].image # None) =>
           ResultContainers[i].image # primary_container.image

\* C6 amended: a primary container that declares an image ends with the
\* resolution output for it, whatever the computed image is (the two are
\* the same image when the resolution output is the computed image); one
\* that declares none ends with the computed image; any other container
\* ends with the resolution output for its declared image.
C6_ResolvedOrComputed == Serialized => FinalImages

\* C6's case: the template names a primary container with an image, one
\* without, and the computed image is not what the declared one resolves to
C6_Witness ==
  /\ Serialized
  /\ \E i, j \in 1..Len(before) :
       /\ before[i].name = "primary" /\ before[i].image # None
       /\ ResultContainers[i].image = Resolved(before[i].image)
       /\ ResultContainers[i].image # primary_container.image
       /\ before[j].name = "primary" /\ before[j].image = None
       /\ ResultContainers[j].image = primary_container.image

\* C7: after the call the caller's template holds the containers it held
\* before, each with the fields it had.
C7_TemplateUnchanged ==
  podPc = "done" => TemplateView(heap, pod_template) = before

\* C7's case: the template named no primary container, and the output has
\* the placeholder
C7_Witness ==
  /\ Serialized
  /\ Len(before) = MaxContainers
  /\ Len(ResultContainers) = Len(before) + 1
  /\ ResultContainers[Len(before) + 1].name = "primary"

\* The env a container of the template declares (none for the placeholder)
DeclaredEnv(i) ==
  IF i <= Len(before) /\ before[i].env # Null THEN before[i].env[1] ELSE <<>>

\* C9: when the computed primary container has an env mapping, a primary
\* container's final env is the computed entries in mapping order, then
\* the declared entries in their order, none dropped.
C9_EnvPrepended ==
  (Serialized /\ primary_container.env # Null) =>
    \A i \in 1..Len(ResultContainers) :
       ResultContainers[i].name = "primary" =>
         LET computed == primary_container.env[1]
             declared == DeclaredEnv(i)
             env == ResultContainers[i].env
         IN /\ "env" \in DOMAIN ResultContainers[i]
            /\ Len(env) = Len(computed) + Len(declared)
            /\ \A k \in 1..Len(computed) :
                 env[k] = [name |-> computed[k][1], value |-> computed[k][2]]
            /\ \A k \in 1..Len(declared) :
                 env[Len(computed) + k] = declared[k]

\* C9's case: a key of the computed env is declared too, and is there twice
C9_Witness ==
  /\ Serialized /\ primary_container.env # Null
  /\ \E i \in 1..Len(before) :
       /\ before[i].name = "primary"
       /\ Len(ResultContainers[i].env) = 3
       /\ ResultContainers[i].env[1] = [name |-> "A", value |-> "computed"]
       /\ ResultContainers[i].env[3] = [name |-> "A", value |-> "declared"]

\* The field of a Resources value that a resource name stands for
ResourceField(name) ==
  CASE name = "CPU" -> "cpu"
    [] name = "GPU" -> "gpu"
    [] name = "MEMORY" -> "mem"
    [] name = "EPHEMERAL_STORAGE" -> "ephemeral_storage"

ResourceNames == {"CPU", "GPU", "MEMORY", "EPHEMERAL_STORAGE"}

NonEmpty(x) == x # None /\ x # ""

\* entries has one entry for each non-empty field of r, none for the
\* others, and CPU before MEMORY
EntriesOf(entries, r) ==
  /\ \A i \in 1..Len(entries) : entries[i].name \in ResourceNames
  /\ \A name \in ResourceNames :
       Cardinality({i \in 1..Len(entries) : entries[i].name = name})
         = IF NonEmpty(r[ResourceField(name)]) THEN 1 ELSE 0
  /\ \A i \in 1..Len(entries) :
       entries[i].value = r[ResourceField(entries[i].name)]
  /\ \A i, j \in 1..Len(entries) :
       (entries[i].name = "CPU" /\ entries[j].name = "MEMORY") => i < j

\* C8: the container's limits and requests each hold exactly one entry for
\* each resource whose value is non-empty, none for the others, CPU before
\* memory.
C8_SparseEntries ==
  cdPc = "done" =>
    /\ EntriesOf(container[1].resources.limits, resource_spec.limits)
    /\ EntriesOf(container[1].resources.requests, resource_spec.requests)

\* C8's case: limits of cpu and mem, and no requests
C8_Witness ==
  /\ cdPc = "done"
  /\ resource_spec.limits =
       [cpu |-> "1", mem |-> "2Gi", gpu |-> None, ephemeral_storage |-> None]
  /\ resource_spec.requests =
       [cpu |-> None, mem |-> "", gpu |-> None, ephemeral_storage |-> ""]
  /\ container[1].resources.limits =
       <<ResourceEntry("CPU", "1"), ResourceEntry("MEMORY", "2Gi")>>
  /\ container[1].resources.requests = <<>>

====
